---- MODULE Spec2Model ----
(***************************************************************************)
(* A model of the dashboard scripts under src/pages:                       *)
(*   05_ subway.py      loader, normalizer, aggregator, colorizer, chart   *)
(*   06_ (line script)  the TOP10 variant without the guards               *)
(*   07_ Dessert.py     the item categorizer                               *)
(* Text is modelled as a sequence of one-symbol strings (a character, or   *)
(* one romanised Korean syllable), so that strip, split, replace, the      *)
(* substring tests and the number and date parsers are computed on the     *)
(* text itself.                                                            *)
(***************************************************************************)
EXTENDS Integers, Sequences, FiniteSets, TLC

VARIABLES
    \* generate_gray_gradient and the "prepare colors" block, step by step
    cN, cPc, cI, cGrad, cColors,
    \* load_data_safe and try_read_csv, attempt by attempt
    lSource, lParses, lPos, lEnc, lSep, lLastExc, lTried, lPc, lResult,
    \* normalize_df applied to a raw table, and again to its own output
    nRaw, nOnce, nTwice, nPc,
    \* one run after another of the script 05_ subway.py
    pSource, pParses, pPos, pFile, pPc, pDf, pSelDate, pSelLine, pTopN,
    pSel, pAgg, pAggTop, pColors, pOut, pChart,
    \* categorize_item of 07_ Dessert.py applied to one item, step by step
    dItem, dName, dKey, dPc, dOut

colorVars == <<cN, cPc, cI, cGrad, cColors>>
loaderVars == <<lSource, lParses, lPos, lEnc, lSep, lLastExc, lTried, lPc, lResult>>
normVars == <<nRaw, nOnce, nTwice, nPc>>
envVars == <<pSource, pParses, pFile>>
runVars == <<pPos, pPc, pDf, pSelDate, pSelLine, pTopN, pSel, pAgg, pAggTop, pColors, pOut, pChart>>
dessertVars == <<dItem, dName, dKey, dPc, dOut>>
vars == <<colorVars, loaderVars, normVars, envVars, runVars, dessertVars>>

(***************************************************************************)
(* Bounds of the model.                                                    *)
(***************************************************************************)
\* the largest number of aggregate rows handed to the colorizer
MaxBars == 50
\* the length of the uploaded byte stream, in read positions
StreamLen == 2
\* the columns and rows of the raw tables handed to the normalizer
MaxNormCols == 2
MaxNormRows == 2
\* how far above its minimum the Top-N slider is moved
TopNSpan == 1
\* the rows of the short files and the stations of the long files
MaxWideRows == 2
MaxStations == 6
\* the largest number of words of an item name given to categorize_item
MaxWords == 2

(***************************************************************************)
(* Generic helpers.                                                        *)
(***************************************************************************)
Max(a, b) == IF a >= b THEN a ELSE b
Min(a, b) == IF a <= b THEN a ELSE b

(***************************************************************************)
(* Color utilities (05_ subway.py, lines 109-133).                         *)
(***************************************************************************)
HexDigits == <<"0","1","2","3","4","5","6","7","8","9","a","b","c","d","e","f">>

HexVal(c) == (CHOOSE k \in 1..16 : HexDigits[k] = c) - 1

\* str.lstrip('#'): drop every leading '#'
RECURSIVE LStripHash(_)
LStripHash(s) ==
    IF s # <<>> /\ Head(s) = "#" THEN LStripHash(Tail(s)) ELSE s

\* hex_to_rgb: int(h[i:i+2], 16) for i in (0, 2, 4)
hex_to_rgb(hex_color) ==
    LET h == LStripHash(hex_color)
    IN  [k \in 1..3 |-> 16 * HexVal(h[2*k - 1]) + HexVal(h[2*k])]

\* '%02x' of one channel
Hex2(v) == <<HexDigits[(v \div 16) + 1], HexDigits[(v % 16) + 1]>>

\* rgb_to_hex: '#%02x%02x%02x' % rgb
rgb_to_hex(rgb) == <<"#">> \o Hex2(rgb[1]) \o Hex2(rgb[2]) \o Hex2(rgb[3])

HighlightHex == <<"#","0","0","0","0","0","0">>
StartHex == <<"#","2","f","2","f","2","f">>
EndHex == <<"#","b","f","b","f","b","f">>

\* the divisor of t = i / max(n - 1, 1), with the off-by-one slip max(n, 1)
GradDivisorSlip(n) == Max(n, 1)
GradDivisor(n) == Max(n - 1, 1)

\* int(start + (end - start) * t), t = i / max(n - 1, 1).  The float product
\* truncates to the same integer as the exact quotient for every n < 200.
\* The slip rounds the quotient up instead of truncating it.
GrayChannelSlip(s, e, i, n) == s + ((e - s) * i + GradDivisor(n) - 1) \div GradDivisor(n)
GrayChannel(s, e, i, n) == s + ((e - s) * i) \div GradDivisor(n)

\* the body of one iteration of the loop of generate_gray_gradient
GradColor(i, n, start_hex, end_hex) ==
    LET s == hex_to_rgb(start_hex)
        e == hex_to_rgb(end_hex)
    IN  rgb_to_hex([k \in 1..3 |-> GrayChannel(s[k], e[k], i, n)])

\* generate_gray_gradient as a function of n
generate_gray_gradient(n, start_hex, end_hex) ==
    IF n <= 0 THEN <<>>
    ELSE [j \in 1..n |-> GradColor(j - 1, n, start_hex, end_hex)]

\* the "prepare colors" block as a function of len(agg_top)
PrepareColorsOf(nrows) ==
    IF nrows > 0
    THEN <<HighlightHex>> \o
         (IF Max(0, nrows - 1) > 0
          THEN generate_gray_gradient(Max(0, nrows - 1), StartHex, EndHex)
          ELSE <<>>)
    ELSE <<>>

\* the colorizer variables of a run that is not a colorizer run
IdleColor ==
    /\ cN = 0
    /\ cPc = "idle"
    /\ cI = 0
    /\ cGrad = <<>>
    /\ cColors = <<>>

\* the normalizer variables of a run that is not a normalizer run
IdleNorm ==
    /\ nRaw = <<>>
    /\ nOnce = <<>>
    /\ nTwice = <<>>
    /\ nPc = "idle"

\* the variables of a script run when no script runs
NoTable == [cols |-> <<>>, rows |-> <<>>]
NoOutcome == [kind |-> "none", msg |-> "", names |-> {}]
NoChart == [shown |-> FALSE, x |-> <<>>, y |-> <<>>, marker_color |-> <<>>, table |-> <<>>]

FreshRun ==
    /\ pDf = NoTable
    /\ pSelDate = 0
    /\ pSelLine = <<>>
    /\ pTopN = 0
    /\ pSel = NoTable
    /\ pAgg = <<>>
    /\ pAggTop = <<>>
    /\ pColors = <<>>
    /\ pOut = NoOutcome
    /\ pChart = NoChart

\* the categorizer variables of a run that is not a categorizer run
IdleDessert ==
    /\ dItem = <<>>
    /\ dName = <<>>
    /\ dKey = 0
    /\ dPc = "idle"
    /\ dOut = [label |-> "", rule |-> "none"]

IdleRun ==
    /\ pSource = "none"
    /\ pParses = <<>>
    /\ pFile = NoTable
    /\ pPos = 0
    /\ pPc = "idle"
    /\ FreshRun

(***************************************************************************)
(* Loader (05_ subway.py, lines 11-61).                                    *)
(***************************************************************************)
\* encodings = [None, "cp949", "utf-8"]; separators = [None, "\t", ","]
Encodings == <<"None", "cp949", "utf-8">>
Separators == <<"None", "TAB", ",">>

NumEncodings == Len(Encodings)
NumSeparators == Len(Separators)

\* the place of the pair (enc, sep) in the nested loops, 1..9
PairIndex(enc, sep) == (enc - 1) * NumSeparators + sep

Pairs == 1..(NumEncodings * NumSeparators)

\* the keyword arguments of the pd.read_csv call made for one pair
ReadCsvArgs(enc, sep) ==
    IF Separators[sep] = "None" /\ Encodings[enc] = "None" THEN [encoding |-> "default", sep |-> "default"]
    ELSE IF Separators[sep] = "None" THEN [encoding |-> Encodings[enc], sep |-> "default"]
    ELSE IF Encodings[enc] = "None" THEN [encoding |-> "default", sep |-> Separators[sep]]
    ELSE [encoding |-> Encodings[enc], sep |-> Separators[sep]]

\* hasattr(source, "seek"): an uploaded file is an in-memory stream, a path is a str
HasSeek(source) == source = "stream"

\* "except Exception: last_exc = e", with the slip that keeps the first exception
KeepLastExcSlip(old, e) == IF old = 0 THEN e ELSE old
KeepLastExc(old, e) == e

\* source.seek(0) when the source has seek; a path keeps no position.
\* The slip leaves the pointer where the failed attempt left it.
SeekAfterFailureSlip(source, left) == left
SeekAfterFailure(source, left) == IF HasSeek(source) THEN 0 ELSE left

\* Whether pd.read_csv can succeed for pair k from position p: a path is opened
\* afresh by every call; a stream is read from its pointer, parses as the file
\* does from 0, yields nothing at its end, and may go either way in between.
CanParse(source, parses, k, p) ==
    IF source # "stream" \/ p = 0 THEN {parses[k]}
    ELSE IF p = StreamLen THEN {FALSE}
    ELSE BOOLEAN

IdleLoader ==
    /\ lSource = "none"
    /\ lParses = <<>>
    /\ lPos = 0
    /\ lEnc = 1
    /\ lSep = 1
    /\ lLastExc = 0
    /\ lTried = <<>>
    /\ lPc = "idle"
    /\ lResult = [kind |-> "none", value |-> 0]

\* uploaded_file is an UploadedFile (whose pointer a previous run may have
\* moved) or None; without it default_path exists or not.
\* load_data_safe: the server branch without the file raises FileNotFoundError
LoadNotFound ==
    /\ lPc = "load"
    /\ lSource = "missing"
    /\ lResult' = [kind |-> "FileNotFoundError", value |-> 0]
    /\ lPc' = "done"
    /\ UNCHANGED <<lSource, lParses, lPos, lEnc, lSep, lLastExc, lTried>>
    /\ UNCHANGED <<colorVars, normVars, envVars, runVars, dessertVars>>

\* load_data_safe: either branch calls try_read_csv
LoadCall ==
    /\ lPc = "load"
    /\ lSource \in {"stream", "path"}
    /\ lPc' = "try"
    /\ lEnc' = 1
    /\ lSep' = 1
    /\ lLastExc' = 0
    /\ UNCHANGED <<lSource, lParses, lPos, lTried, lResult>>
    /\ UNCHANGED <<colorVars, normVars, envVars, runVars, dessertVars>>

\* one pass of the inner loop whose pd.read_csv returns: try_read_csv returns it
AttemptOk ==
    /\ lPc = "try"
    /\ TRUE \in CanParse(lSource, lParses, PairIndex(lEnc, lSep), lPos)
    /\ lTried' = Append(lTried, [pair |-> PairIndex(lEnc, lSep), args |-> ReadCsvArgs(lEnc, lSep),
                                 start |-> lPos, ok |-> TRUE, left |-> StreamLen])
    /\ lPos' = IF HasSeek(lSource) THEN StreamLen ELSE lPos
    /\ lResult' = [kind |-> "table", value |-> PairIndex(lEnc, lSep)]
    /\ lPc' = "return"
    /\ UNCHANGED <<lSource, lParses, lEnc, lSep, lLastExc>>
    /\ UNCHANGED <<colorVars, normVars, envVars, runVars, dessertVars>>

\* one pass whose pd.read_csv raises: remember the exception, rewind, go on
AttemptFail ==
    /\ lPc = "try"
    /\ FALSE \in CanParse(lSource, lParses, PairIndex(lEnc, lSep), lPos)
    /\ \E left \in (IF HasSeek(lSource) THEN lPos..StreamLen ELSE {lPos}) :
          /\ lTried' = Append(lTried, [pair |-> PairIndex(lEnc, lSep), args |-> ReadCsvArgs(lEnc, lSep),
                                       start |-> lPos, ok |-> FALSE, left |-> left])
          /\ lPos' = SeekAfterFailure(lSource, left)
    /\ lLastExc' = KeepLastExc(lLastExc, PairIndex(lEnc, lSep))
    /\ IF lSep < NumSeparators
       THEN lSep' = lSep + 1 /\ lEnc' = lEnc /\ lPc' = "try"
       ELSE IF lEnc < NumEncodings
            THEN lSep' = 1 /\ lEnc' = lEnc + 1 /\ lPc' = "try"
            ELSE lSep' = lSep /\ lEnc' = lEnc /\ lPc' = "raise"
    /\ UNCHANGED <<lSource, lParses, lResult>>
    /\ UNCHANGED <<colorVars, normVars, envVars, runVars, dessertVars>>

\* "raise last_exc", which load_data_safe turns into RuntimeError(...{e}) from e
RaiseLast ==
    /\ lPc = "raise"
    /\ lResult' = [kind |-> "RuntimeError", value |-> lLastExc]
    /\ lPc' = "done"
    /\ UNCHANGED <<lSource, lParses, lPos, lEnc, lSep, lLastExc, lTried>>
    /\ UNCHANGED <<colorVars, normVars, envVars, runVars, dessertVars>>

\* load_data_safe returns the table try_read_csv returned
ReturnDf ==
    /\ lPc = "return"
    /\ lPc' = "done"
    /\ UNCHANGED <<lSource, lParses, lPos, lEnc, lSep, lLastExc, lTried, lResult>>
    /\ UNCHANGED <<colorVars, normVars, envVars, runVars, dessertVars>>

NextLoader == LoadNotFound \/ LoadCall \/ AttemptOk \/ AttemptFail \/ RaiseLast \/ ReturnDf

InitLoad ==
    /\ lSource \in {"stream", "path", "missing"}
    /\ lParses \in [Pairs -> BOOLEAN]
    /\ lPos \in (IF lSource = "stream" THEN 0..StreamLen ELSE {0})
    /\ lEnc = 1
    /\ lSep = 1
    /\ lLastExc = 0
    /\ lTried = <<>>
    /\ lPc = "load"
    /\ lResult = [kind |-> "none", value |-> 0]
    /\ IdleColor /\ IdleNorm /\ IdleRun /\ IdleDessert

SpecLoader == InitLoad /\ [][NextLoader]_vars

\* the read_csv calls in the order the nested loops make them
FixedOrder ==
    << [encoding |-> "default", sep |-> "default"],
       [encoding |-> "default", sep |-> "TAB"],
       [encoding |-> "default", sep |-> ","],
       [encoding |-> "cp949", sep |-> "default"],
       [encoding |-> "cp949", sep |-> "TAB"],
       [encoding |-> "cp949", sep |-> ","],
       [encoding |-> "utf-8", sep |-> "default"],
       [encoding |-> "utf-8", sep |-> "TAB"],
       [encoding |-> "utf-8", sep |-> ","] >>

(***************************************************************************)
(* C7: the attempts are made in the fixed order; the first pair whose      *)
(* parse succeeds ends them and its table is the result; when all nine     *)
(* fail the loader fails with an error carrying the exception of the       *)
(* ninth, the last attempt made.                                           *)
(***************************************************************************)
C7_FirstSuccessOrLastError ==
    /\ Len(lTried) <= Len(FixedOrder)
    /\ \A j \in 1..Len(lTried) :
          /\ lTried[j].pair = j
          /\ lTried[j].args = FixedOrder[j]
          /\ (j < Len(lTried) => ~lTried[j].ok)
    /\ (lPc = "done" /\ lResult.kind = "table") =>
          /\ lTried # <<>>
          /\ lTried[Len(lTried)].ok
          /\ lResult.value = lTried[Len(lTried)].pair
          /\ (lTried[1].start = 0 =>
                /\ lParses[lResult.value]
                /\ \A k \in 1..(lResult.value - 1) : ~lParses[k])
    /\ (lPc = "done" /\ lResult.kind = "RuntimeError") =>
          /\ Len(lTried) = Len(FixedOrder)
          /\ \A j \in 1..Len(lTried) : ~lTried[j].ok
          /\ lResult.value = lTried[Len(lTried)].pair
    /\ (lPc = "done" /\ lSource # "missing") => lResult.kind \in {"table", "RuntimeError"}

C7_Witness ==
    /\ lPc = "done"
    /\ lResult = [kind |-> "table", value |-> 5]
    /\ Len(lTried) = 5

(***************************************************************************)
(* C8: with a stream as input the pointer is back at 0 after every failed  *)
(* attempt, so every attempt after the first reads from the beginning,     *)
(* wherever the failed attempt before it stopped reading.                  *)
(***************************************************************************)
C8_RewoundBetweenAttempts ==
    lSource = "stream" =>
        /\ \A j \in 2..Len(lTried) : lTried[j].start = 0
        /\ (lTried # <<>> /\ ~lTried[Len(lTried)].ok) => lPos = 0

C8_Witness ==
    /\ lSource = "stream"
    /\ Len(lTried) >= 2
    /\ lTried[1].left > 0
    /\ lTried[2].start = 0

(***************************************************************************)
(* Text and cells.  A cell is [k, s, n]: k = "str" (text s), "nan" (a       *)
(* missing value), "none" (the padding of str.split(expand=True)), "int"   *)
(* (integer n), "date" (a timestamp, n = yyyymmdd) or "nat" (NaT).         *)
(***************************************************************************)
StrCell(s) == [k |-> "str", s |-> s, n |-> 0]
IntCell(v) == [k |-> "int", s |-> <<>>, n |-> v]
DateCell(v) == [k |-> "date", s |-> <<>>, n |-> v]
NanCell == [k |-> "nan", s |-> <<>>, n |-> 0]
NoneCell == [k |-> "none", s |-> <<>>, n |-> 0]
NatCell == [k |-> "nat", s |-> <<>>, n |-> 0]

Digits == <<"0","1","2","3","4","5","6","7","8","9">>
IsDigit(c) == \E k \in 1..10 : Digits[k] = c
DigitVal(c) == (CHOOSE k \in 1..10 : Digits[k] = c) - 1

Whitespace == {" ", "\t"}

\* x in s for two texts: s holds the symbols of x in a row
Contains(s, x) ==
    \E i \in 1..(Len(s) - Len(x) + 1) : SubSeq(s, i, i + Len(x) - 1) = x

RECURSIVE LStrip(_)
LStrip(s) == IF s # <<>> /\ Head(s) \in Whitespace THEN LStrip(Tail(s)) ELSE s

RECURSIVE RStrip(_)
RStrip(s) ==
    IF s # <<>> /\ s[Len(s)] \in Whitespace THEN RStrip(SubSeq(s, 1, Len(s) - 1)) ELSE s

\* str.strip()
Strip(s) == RStrip(LStrip(s))

\* str.replace(",", "")
RECURSIVE RemoveCommas(_)
RemoveCommas(s) ==
    IF s = <<>> THEN <<>>
    ELSE IF Head(s) = "," THEN RemoveCommas(Tail(s))
    ELSE <<Head(s)>> \o RemoveCommas(Tail(s))

\* str.split("\t"): the fields between tabs, at least one
RECURSIVE SplitTab(_)
SplitTab(s) ==
    IF \A i \in 1..Len(s) : s[i] # "\t" THEN <<s>>
    ELSE LET i == CHOOSE j \in 1..Len(s) : s[j] = "\t" /\ \A h \in 1..(j - 1) : s[h] # "\t"
         IN  <<SubSeq(s, 1, i - 1)>> \o SplitTab(SubSeq(s, i + 1, Len(s)))

\* the decimal digits of a natural number
RECURSIVE NatToStr(_)
NatToStr(v) ==
    IF v < 10 THEN <<Digits[v + 1]>> ELSE NatToStr(v \div 10) \o <<Digits[(v % 10) + 1]>>

IntToStr(v) == IF v < 0 THEN <<"-">> \o NatToStr(0 - v) ELSE NatToStr(v)

\* the value of a text of digits
RECURSIVE DigitsToNat(_)
DigitsToNat(s) ==
    IF s = <<>> THEN 0 ELSE 10 * DigitsToNat(SubSeq(s, 1, Len(s) - 1)) + DigitVal(s[Len(s)])

AllDigits(s) == s # <<>> /\ \A i \in 1..Len(s) : IsDigit(s[i])

Pad2(v) == <<Digits[(v \div 10) + 1], Digits[(v % 10) + 1]>>

\* str() of a timestamp column value: YYYY-MM-DD
DateToStr(v) ==
    NatToStr(v \div 10000) \o <<"-">> \o Pad2((v \div 100) % 100) \o <<"-">> \o Pad2(v % 100)

NanStr == <<"n","a","n">>
NatStr == <<"N","a","T">>
NoneStr == <<"N","o","n","e">>

\* Series.astype(str) of one cell
AsStr(c) ==
    CASE c.k = "str" -> c.s
      [] c.k = "nan" -> NanStr
      [] c.k = "none" -> NoneStr
      [] c.k = "int" -> IntToStr(c.n)
      [] c.k = "date" -> DateToStr(c.n)
      [] c.k = "nat" -> NatStr

\* the texts pandas reads as a missing value in a datetime column
IsNullText(s) == s = <<>> \/ s = NanStr \/ s = NatStr

ValidYmd(y, m, d) == y >= 1 /\ m \in 1..12 /\ d \in 1..31

\* "%Y%m%d": eight digits, a month and a day in range
IsCompactDate(s) ==
    /\ Len(s) = 8
    /\ AllDigits(s)
    /\ ValidYmd(DigitsToNat(SubSeq(s, 1, 4)), DigitsToNat(SubSeq(s, 5, 6)), DigitsToNat(SubSeq(s, 7, 8)))

\* YYYY-MM-DD, the text a parsed date prints as
IsIsoDate(s) ==
    /\ Len(s) = 10
    /\ s[5] = "-" /\ s[8] = "-"
    /\ AllDigits(SubSeq(s, 1, 4)) /\ AllDigits(SubSeq(s, 6, 7)) /\ AllDigits(SubSeq(s, 9, 10))
    /\ ValidYmd(DigitsToNat(SubSeq(s, 1, 4)), DigitsToNat(SubSeq(s, 6, 7)), DigitsToNat(SubSeq(s, 9, 10)))

IsoValue(s) ==
    10000 * DigitsToNat(SubSeq(s, 1, 4)) + 100 * DigitsToNat(SubSeq(s, 6, 7)) + DigitsToNat(SubSeq(s, 9, 10))

\* pd.to_datetime(col, errors="coerce") of one text
CoerceDate(s) ==
    IF IsNullText(s) THEN NatCell
    ELSE IF IsCompactDate(s) THEN DateCell(DigitsToNat(s))
    ELSE IF IsIsoDate(s) THEN DateCell(IsoValue(s))
    ELSE NatCell

\* pd.to_numeric(text, errors="coerce"): an optionally signed run of digits is
\* its value, anything else is missing
IsNumberText(s) ==
    \/ AllDigits(s)
    \/ (Len(s) >= 2 /\ s[1] = "-" /\ AllDigits(Tail(s)))

NumberValue(s) == IF s[1] = "-" THEN 0 - DigitsToNat(Tail(s)) ELSE DigitsToNat(s)

\* line 99: to_numeric(astype(str).str.replace(",", ""), coerce).fillna(0).astype(int)
ToIntCell(c) ==
    LET text == RemoveCommas(AsStr(c))
    IN  IF IsNumberText(text) THEN IntCell(NumberValue(text)) ELSE IntCell(0)

\* lines 102, 104: astype(str)
ToStrCell(c) == StrCell(AsStr(c))

(***************************************************************************)
(* Column names.  One symbol per Korean syllable, romanised.               *)
(***************************************************************************)
SaYongIlJa == <<"sa","yong","il","ja">>
NoSeonMyeong == <<"no","seon","myeong">>
YeokMyeong == <<"yeok","myeong">>
YeokSaMyeong == <<"yeok","sa","myeong">>
SeungCha == <<"seung","cha">>
HaCha == <<"ha","cha">>
SeungGaek == <<"seung","gaek">>
\* the headers of the card-subway CSV
HdrOn == <<"seung","cha","chong","seung","gaek","su">>
HdrOff == <<"ha","cha","chong","seung","gaek","su">>
HdrRegistered == <<"deung","rok","il","ja">>

KeyDate == <<"d","a","t","e">>
KeyLine == <<"l","i","n","e">>
KeyStation == <<"s","t","a","t","i","o","n">>
KeyOn == <<"o","n">>
KeyOff == <<"o","f","f">>
KeyTotal == <<"t","o","t","a","l">>

\* lines 76-86: the rename of one column name
RenameOf(c) ==
    IF Contains(c, SaYongIlJa) THEN KeyDate
    ELSE IF Contains(c, NoSeonMyeong) THEN KeyLine
    ELSE IF Contains(c, YeokMyeong) \/ Contains(c, YeokSaMyeong) THEN KeyStation
    ELSE IF Contains(c, SeungCha) /\ Contains(c, SeungGaek) THEN KeyOn
    ELSE IF Contains(c, HaCha) /\ Contains(c, SeungGaek) THEN KeyOff
    ELSE c

(***************************************************************************)
(* Tables: [cols, rows], cols a sequence of names (cells), rows a sequence *)
(* of rows, each a sequence of cells as long as cols.                      *)
(***************************************************************************)
HasColumn(t, key) == \E i \in 1..Len(t.cols) : t.cols[i] = StrCell(key)
ColumnIndex(t, key) == CHOOSE i \in 1..Len(t.cols) : t.cols[i] = StrCell(key)
Column(t, key) == [r \in 1..Len(t.rows) |-> t.rows[r][ColumnIndex(t, key)]]

\* what a call gives back: the table it returns or the exception it raises
Raised(what) == [ok |-> FALSE, err |-> what, t |-> [cols |-> <<>>, rows |-> <<>>]]
Returned(t) == [ok |-> TRUE, err |-> "", t |-> t]

\* line 66: df.columns = [str(c).strip() for c in df.columns]
StripColumns(t) == [t EXCEPT !.cols = [i \in 1..Len(t.cols) |-> StrCell(Strip(AsStr(t.cols[i])))]]

SeqMax(f) == IF Len(f) = 0 THEN 0 ELSE CHOOSE m \in {f[i] : i \in 1..Len(f)} : \A i \in 1..Len(f) : f[i] <= m

\* lines 70-72: split the only column on tabs (short rows padded with None, a
\* missing cell giving a row of missing values), promote row 0 to the column
\* names, drop it.  iloc[0] of a table without rows raises IndexError.
SplitSingleColumn(t) ==
    LET fields == [r \in 1..Len(t.rows) |->
                     IF t.rows[r][1].k = "str" THEN SplitTab(t.rows[r][1].s) ELSE <<>>]
        width == SeqMax([r \in 1..Len(t.rows) |-> Len(fields[r])])
        wide == [r \in 1..Len(t.rows) |->
                   [j \in 1..width |->
                      IF t.rows[r][1].k # "str" THEN NanCell
                      ELSE IF j <= Len(fields[r]) THEN StrCell(fields[r][j])
                      ELSE NoneCell]]
    IN  IF Len(t.rows) = 0 THEN Raised("IndexError")
        ELSE Returned([cols |-> wide[1], rows |-> Tail(wide)])

\* lines 75-87: "in c" raises TypeError for a column name that is not text
RenameColumns(t) ==
    IF \E i \in 1..Len(t.cols) : t.cols[i].k # "str" THEN Raised("TypeError")
    ELSE Returned([t EXCEPT !.cols = [i \in 1..Len(t.cols) |-> StrCell(RenameOf(t.cols[i].s))]])

\* lines 90-104: the conversion of one cell of the column called name; the
\* date column takes the strict parse when the whole column passes it
ConvertCell(name, c, strict) ==
    IF name = KeyDate
    THEN (IF ~strict THEN CoerceDate(AsStr(c))
          ELSE IF IsNullText(AsStr(c)) THEN NatCell
          ELSE DateCell(DigitsToNat(AsStr(c))))
    ELSE IF name = KeyOn \/ name = KeyOff THEN ToIntCell(c)
    ELSE IF name = KeyStation \/ name = KeyLine THEN ToStrCell(c)
    ELSE c

\* lines 90-104: the conversions of the columns that are present
ConvertTypes(t) ==
    LET strict == \A i \in 1..Len(t.cols) : \A r \in 1..Len(t.rows) :
                      t.cols[i].s = KeyDate =>
                          (IsNullText(AsStr(t.rows[r][i])) \/ IsCompactDate(AsStr(t.rows[r][i])))
    IN  [t EXCEPT !.rows = [r \in 1..Len(t.rows) |->
                              [i \in 1..Len(t.cols) |-> ConvertCell(t.cols[i].s, t.rows[r][i], strict)]]]

\* normalize_df (lines 64-106): the table returned, or the exception raised
normalize_df(df) ==
    LET stripped == StripColumns(df)
        split == IF Len(stripped.cols) = 1 /\ Contains(stripped.cols[1].s, <<"\t">>)
                 THEN SplitSingleColumn(stripped) ELSE Returned(stripped)
        renamed == IF split.ok THEN RenameColumns(split.t) ELSE split
    IN  IF renamed.ok THEN Returned(ConvertTypes(renamed.t)) ELSE renamed

(***************************************************************************)
(* The loader as a function: what load_data_safe can give back for a       *)
(* source, the parse outcome of each pair and the pointer of the stream.   *)
(***************************************************************************)
\* try_read_csv from pair k on: the results [ok, value, pos] it can end with
RECURSIVE TryFrom(_, _, _, _, _)
TryFrom(source, parses, k, pos, last) ==
    IF k > NumEncodings * NumSeparators
    THEN { [ok |-> FALSE, value |-> last, pos |-> pos] }
    ELSE UNION { IF o
                 THEN { [ok |-> TRUE, value |-> k, pos |-> IF HasSeek(source) THEN StreamLen ELSE pos] }
                 ELSE UNION { TryFrom(source, parses, k + 1, SeekAfterFailure(source, left), KeepLastExc(last, k)) :
                              left \in (IF HasSeek(source) THEN pos..StreamLen ELSE {pos}) } :
                 o \in CanParse(source, parses, k, pos) }

try_read_csv(source, parses, pos) == TryFrom(source, parses, 1, pos, 0)

load_data_safe(source, parses, pos) ==
    IF source = "missing"
    THEN { [kind |-> "FileNotFoundError", value |-> 0, pos |-> pos] }
    ELSE { [kind |-> IF r.ok THEN "table" ELSE "RuntimeError", value |-> r.value, pos |-> r.pos] :
           r \in try_read_csv(source, parses, pos) }

(***************************************************************************)
(* Filter and aggregator of 05_ subway.py (lines 153-198).                 *)
(***************************************************************************)
\* DataFrame.empty: no rows or no columns
IsEmpty(t) == Len(t.rows) = 0 \/ Len(t.cols) = 0

YearOf(c) == c.n \div 10000
MonthOf(c) == (c.n \div 100) % 100

\* df[mask] for a mask given row by row
KeepRows(t, mask) ==
    LET F[i \in 0..Len(t.rows)] ==
            IF i = 0 THEN <<>>
            ELSE IF mask[i] THEN Append(F[i - 1], t.rows[i]) ELSE F[i - 1]
    IN  [t EXCEPT !.rows = F[Len(t.rows)]]

\* lines 158-160: the rows of year 2025, then of month 10 (NaT compares false)
FilterYear == 2025
FilterMonth == 10

FilterOct2025(t) ==
    IF HasColumn(t, KeyDate)
    THEN LET y == KeepRows(t, [r \in 1..Len(t.rows) |->
                        Column(t, KeyDate)[r].k = "date" /\ YearOf(Column(t, KeyDate)[r]) = FilterYear])
         IN  KeepRows(y, [r \in 1..Len(y.rows) |->
                        Column(y, KeyDate)[r].k = "date" /\ MonthOf(Column(y, KeyDate)[r]) = FilterMonth])
    ELSE t

\* line 163: "date" not in df.columns or df["date"].isna().all()
DateUnusable(t) ==
    \/ ~HasColumn(t, KeyDate)
    \/ \A r \in 1..Len(t.rows) : Column(t, KeyDate)[r].k = "nat"

\* line 167: the dates on offer
AvailableDates(t) == { Column(t, KeyDate)[r].n : r \in { q \in 1..Len(t.rows) : Column(t, KeyDate)[q].k = "date" } }

\* line 170: the lines on offer
AvailableLines(t) ==
    IF HasColumn(t, KeyLine) THEN { Column(t, KeyLine)[r].s : r \in 1..Len(t.rows) } ELSE {}

\* line 176: st.sidebar.slider("Top N", min_value=5, max_value=50, value=10)
TopNMin == 5
TopNMax == 50
TopNChoices == TopNMin..Min(TopNMax, TopNMin + TopNSpan)

\* lines 183-184: the rows of the selected date and line
FilterSelection(t, date, line) ==
    KeepRows(t, [r \in 1..Len(t.rows) |->
                   /\ Column(t, KeyDate)[r].k = "date"
                   /\ Column(t, KeyDate)[r].n = date
                   /\ Column(t, KeyLine)[r] = StrCell(line)])

\* line 192: df_sel["total"] = df_sel["on"] + df_sel["off"]
WithTotal(t) ==
    [cols |-> Append(t.cols, StrCell(KeyTotal)),
     rows |-> [r \in 1..Len(t.rows) |->
                 Append(t.rows[r], IntCell(Column(t, KeyOn)[r].n + Column(t, KeyOff)[r].n))]]

\* the code points of the symbols, in order
AsciiOrder ==
    <<"\t", " ", ",", "-", "0","1","2","3","4","5","6","7","8","9",
      "A","B","C","D","E","F","G","H","N","T","a","b","n","x">>
CodePoint(c) == CHOOSE i \in 1..Len(AsciiOrder) : AsciiOrder[i] = c

\* a < b for two texts
RECURSIVE LexLess(_, _)
LexLess(a, b) ==
    IF a = <<>> THEN b # <<>>
    ELSE IF b = <<>> THEN FALSE
    ELSE IF Head(a) = Head(b) THEN LexLess(Tail(a), Tail(b))
    ELSE CodePoint(Head(a)) < CodePoint(Head(b))

\* the texts of S in ascending order
RECURSIVE SortedTexts(_)
SortedTexts(S) ==
    IF S = {} THEN <<>>
    ELSE LET m == CHOOSE x \in S : \A y \in S \ {x} : LexLess(x, y)
         IN  <<m>> \o SortedTexts(S \ {m})

RECURSIVE SumSeq(_)
SumSeq(f) == IF Len(f) = 0 THEN 0 ELSE f[1] + SumSeq(Tail(f))

\* the totals of the rows of t, in row order
TotalsOf(t) == [r \in 1..Len(t.rows) |-> Column(t, KeyTotal)[r].n]

\* groupby("station").agg(total=("total", "sum")).reset_index(): one row per
\* station, in ascending key order (groupby sorts its keys)
GroupByStation(t) ==
    LET keys == SortedTexts({ Column(t, KeyStation)[r].s : r \in 1..Len(t.rows) })
        mine(key) == KeepRows(t, [r \in 1..Len(t.rows) |-> Column(t, KeyStation)[r].s = key])
    IN  [g \in 1..Len(keys) |-> [station |-> keys[g], total |-> SumSeq(TotalsOf(mine(keys[g])))]]

\* which groups may come first: with ascending=False the largest totals
MayComeFirst(S) == { x \in S : \A y \in S : x.total >= y.total }

\* sort_values("total", ascending=False): the default quicksort is not
\* stable, so equal totals may come out in any order
RECURSIVE OrdersOf(_)
OrdersOf(S) ==
    IF S = {} THEN {<<>>}
    ELSE UNION { { <<x>> \o rest : rest \in OrdersOf(S \ {x}) } : x \in MayComeFirst(S) }

SortValuesDesc(groups) == OrdersOf({ groups[g] : g \in 1..Len(groups) })

\* DataFrame.head(n)
HeadOf(f, n) == SubSeq(f, 1, Min(n, Len(f)))

(***************************************************************************)
(* What a run shows: an error or a warning with its text (msg, and the     *)
(* canonical columns the text names), an exception that no handler         *)
(* caught, or the chart.                                                   *)
(***************************************************************************)
ErrLoad(r) == [kind |-> "error", msg |-> r.kind, names |-> {}]
ErrEmptyData == [kind |-> "error", msg |-> "data is empty", names |-> {}]
ErrDate == [kind |-> "error", msg |-> "no date column or unparsed", names |-> {"date"}]
ErrLine == [kind |-> "error", msg |-> "no line column", names |-> {"line"}]
ErrOnOff == [kind |-> "error", msg |-> "no on or off column", names |-> {"on", "off"}]
WarnNoRows == [kind |-> "warning", msg |-> "no data for the selected date and line", names |-> {}]
Uncaught(what) == [kind |-> "exception", msg |-> what, names |-> {}]
ShownChart == [kind |-> "chart", msg |-> "", names |-> {}]

(***************************************************************************)
(* The normalizer on raw tables as pd.read_csv hands them over.            *)
(***************************************************************************)
\* Candidate columns of a parsed file: a header and the cells it may hold.
\* read_csv gives an all-integer column integer cells and any other column
\* text cells with missing values.
RawColumns ==
    { [hdr |-> SaYongIlJa,
       cells |-> {StrCell(<<"2","0","2","5","1","0","0","1">>), StrCell(<<"x">>), NanCell}],
      [hdr |-> <<" ">> \o SaYongIlJa,
       cells |-> {IntCell(20251002)}],
      [hdr |-> NoSeonMyeong,
       cells |-> {StrCell(<<"1">>), NanCell}],
      [hdr |-> YeokMyeong \o <<" ">>,
       cells |-> {StrCell(<<"A">>), NanCell}],
      [hdr |-> HdrOn,
       cells |-> {StrCell(<<"1",",","2">>), StrCell(<<"-","5">>), StrCell(<<"x">>), NanCell}],
      [hdr |-> HdrOff,
       cells |-> {IntCell(7), IntCell(0)}],
      [hdr |-> HdrRegistered,
       cells |-> {StrCell(<<" ","x">>), NanCell}] }

\* the sequences that take their i-th element from the i-th set of ds
RECURSIVE Product(_)
Product(ds) ==
    IF ds = <<>> THEN {<<>>}
    ELSE { <<x>> \o rest : x \in Head(ds), rest \in Product(Tail(ds)) }

\* the sequences of n elements of S
SeqsOfLen(S, n) == Product([i \in 1..n |-> S])

\* the sequences of n distinct elements of S
RECURSIVE DistinctSeqs(_, _)
DistinctSeqs(S, n) ==
    IF n = 0 THEN {<<>>}
    ELSE UNION { { <<x>> \o rest : rest \in DistinctSeqs(S \ {x}, n - 1) } : x \in S }

\* the tables of 1..maxCols distinct candidate columns and 0..maxRows rows
RegularTables(maxCols, maxRows) ==
    UNION { UNION { { [cols |-> [i \in 1..w |-> StrCell(cs[i].hdr)], rows |-> rs] :
                      rs \in SeqsOfLen(Product([i \in 1..w |-> cs[i].cells]), h) } :
                    cs \in DistinctSeqs(RawColumns, w) } :
            w \in 1..maxCols, h \in 0..maxRows }

\* A tab-separated file read with the default separator: one column, whose
\* name and cells hold tabs.  NameFields are the fields of its first data
\* row, DataFields those of the rows after it.
NameFields == {SaYongIlJa, <<" ">> \o HdrOn, <<" ","x"," ">>, <<"x">>}
DataFields == {<<"2","0","2","5","1","0","0","1">>, <<"1",",","2">>, <<"x">>}

JoinTab(a, b) == a \o <<"\t">> \o b

TabLines(fields) ==
    fields \cup { JoinTab(a, b) : a \in fields, b \in fields \ {<<>>} }

CollapsedHeader == StrCell(JoinTab(<<"a">>, <<"b">>))

\* the first data row has distinct fields; a table may have no data row
CollapsedTables(maxRows) ==
    LET first == { <<StrCell(l)>> : l \in TabLines(NameFields) \ { JoinTab(a, a) : a \in NameFields } }
        later == { <<StrCell(l)>> : l \in TabLines(DataFields) }
    IN  UNION { IF h = 0 THEN { [cols |-> <<CollapsedHeader>>, rows |-> <<>>] }
                ELSE { [cols |-> <<CollapsedHeader>>, rows |-> <<f>> \o rs] :
                       f \in first, rs \in SeqsOfLen(later, h - 1) } :
                h \in 0..maxRows }

\* df = normalize_df(df_raw)
NormalizeOnce ==
    /\ nPc = "raw"
    /\ nOnce' = normalize_df(nRaw)
    /\ nPc' = IF nOnce'.ok THEN "once" ELSE "raised"
    /\ UNCHANGED <<nRaw, nTwice>>
    /\ UNCHANGED <<colorVars, loaderVars, envVars, runVars, dessertVars>>

\* normalize_df applied to the table normalize_df returned
NormalizeTwice ==
    /\ nPc = "once"
    /\ nTwice' = normalize_df(nOnce.t)
    /\ nPc' = "twice"
    /\ UNCHANGED <<nRaw, nOnce>>
    /\ UNCHANGED <<colorVars, loaderVars, envVars, runVars, dessertVars>>

NextNorm == NormalizeOnce \/ NormalizeTwice

InitNorm ==
    /\ nRaw \in RegularTables(MaxNormCols, MaxNormRows) \cup CollapsedTables(MaxNormRows)
    /\ nOnce = <<>>
    /\ nTwice = <<>>
    /\ nPc = "raw"
    /\ IdleColor /\ IdleLoader /\ IdleRun /\ IdleDessert

SpecNorm == InitNorm /\ [][NextNorm]_vars

\* C9 as stated: a second normalize_df changes nothing
C9_Idempotent == nPc = "twice" => nTwice = nOnce

\* C10 as stated: every on and off value is a non-negative integer
C10_NonNegative ==
    (nPc \in {"once", "twice"}) =>
        \A key \in {KeyOn, KeyOff} :
            HasColumn(nOnce.t, key) =>
                \A r \in 1..Len(nOnce.t.rows) :
                    Column(nOnce.t, key)[r].k = "int" /\ Column(nOnce.t, key)[r].n >= 0

(***************************************************************************)
(* The script 05_ subway.py, one run after another.  Every interaction     *)
(* executes the script from its first line; only the uploaded stream and   *)
(* its pointer outlive a run.                                              *)
(***************************************************************************)
D1 == <<"2","0","2","5","1","0","0","1">>
D2 == <<"2","0","2","5","1","0","0","2">>
DSeptember == <<"2","0","2","5","0","9","0","1">>
Letters == <<"A","B","C","D","E","F","G","H">>

AllHeaders == <<SaYongIlJa, NoSeonMyeong, YeokMyeong, HdrOn, HdrOff>>

\* the sub-sequences of a sequence
RECURSIVE SubSequences(_)
SubSequences(f) ==
    IF f = <<>> THEN {<<>>}
    ELSE LET rest == SubSequences(Tail(f))
         IN  rest \cup { <<Head(f)>> \o r : r \in rest }

\* what a column of a short file may hold
WideCells(hdr) ==
    CASE hdr = SaYongIlJa -> {StrCell(D1), StrCell(D2), StrCell(DSeptember)}
      [] hdr = NoSeonMyeong -> {StrCell(<<"1">>), StrCell(<<"2">>)}
      [] hdr = YeokMyeong -> {StrCell(<<"A">>)}
      [] hdr = HdrOn -> {StrCell(<<"1">>)}
      [] hdr = HdrOff -> {StrCell(<<"2">>)}

\* short files: any of the five columns present or absent, 0..maxRows rows
WideTables(maxRows) ==
    UNION { UNION { { [cols |-> [i \in 1..Len(hs) |-> StrCell(hs[i])], rows |-> rs] :
                      rs \in SeqsOfLen(Product([i \in 1..Len(hs) |-> WideCells(hs[i])]), h) } :
                    h \in 0..maxRows } :
            hs \in SubSequences(AllHeaders) \ {<<>>} }

\* what the on column of a long file may hold
TallOn == {StrCell(<<"1">>), StrCell(<<"2">>), StrCell(<<"-","1">>)}

TallRow(station, on) ==
    <<StrCell(D1), StrCell(<<"1">>), StrCell(<<station>>), on, StrCell(<<"0">>)>>

\* long files: one row per station of one date and line, the stations from
\* the last key to the first, and then possibly one more row of station A
TallTables(stations) ==
    LET base == { [i \in 1..stations |-> TallRow(Letters[stations + 1 - i], ons[i])] :
                  ons \in SeqsOfLen(TallOn, stations) }
        more == {<<>>} \cup { <<TallRow(Letters[1], on)>> : on \in TallOn }
    IN  { [cols |-> [i \in 1..Len(AllHeaders) |-> StrCell(AllHeaders[i])], rows |-> b \o m] :
          b \in base, m \in more }

AllOk == [k \in Pairs |-> TRUE]
NoneOk == [k \in Pairs |-> FALSE]
OnlyLastOk == [k \in Pairs |-> k = NumEncodings * NumSeparators]

SampleTable ==
    [cols |-> [i \in 1..Len(AllHeaders) |-> StrCell(AllHeaders[i])],
     rows |-> << <<StrCell(D1), StrCell(<<"1">>), StrCell(<<"A">>), StrCell(<<"1">>), StrCell(<<"2">>)>>,
                 <<StrCell(D2), StrCell(<<"2">>), StrCell(<<"B">>), StrCell(<<"1">>), StrCell(<<"2">>)>> >>]

\* the file on the server with any content, or any way of loading one file
RunInputs(wideRows, stations, collapsedRows) ==
    { [source |-> "path", parses |-> AllOk, file |-> f] :
      f \in WideTables(wideRows) \cup TallTables(stations) \cup CollapsedTables(collapsedRows) }
    \cup { [source |-> src, parses |-> ps, file |-> SampleTable] :
           src \in {"stream", "path", "missing"}, ps \in {AllOk, NoneOk, OnlyLastOk} }

others == <<colorVars, loaderVars, normVars, dessertVars>>

\* lines 145-149: load_data_safe, and st.error, st.stop when it raises
Load ==
    /\ pPc = "load"
    /\ \E r \in load_data_safe(pSource, pParses, pPos) :
          /\ pPos' = r.pos
          /\ IF r.kind = "table"
             THEN pPc' = "normalize" /\ pOut' = pOut
             ELSE pPc' = "stopped" /\ pOut' = ErrLoad(r)
    /\ UNCHANGED <<pDf, pSelDate, pSelLine, pTopN, pSel, pAgg, pAggTop, pColors, pChart>>
    /\ UNCHANGED <<envVars, others>>

\* lines 151-155: normalize_df of the loaded table (df_raw, the table of the
\* file) outside any try, then the empty check; df stays unbound on a raise
Normalize ==
    /\ pPc = "normalize"
    /\ LET r == normalize_df(pFile)
       IN  IF ~r.ok THEN pDf' = pDf /\ pPc' = "crashed" /\ pOut' = Uncaught(r.err)
           ELSE IF IsEmpty(r.t) THEN pDf' = r.t /\ pPc' = "stopped" /\ pOut' = ErrEmptyData
           ELSE pDf' = r.t /\ pPc' = "month" /\ pOut' = pOut
    /\ UNCHANGED <<pPos, pSelDate, pSelLine, pTopN, pSel, pAgg, pAggTop, pColors, pChart>>
    /\ UNCHANGED <<envVars, others>>

\* lines 157-165: keep October 2025, then the date check
MonthFilter ==
    /\ pPc = "month"
    /\ pDf' = FilterOct2025(pDf)
    /\ IF DateUnusable(pDf')
       THEN pPc' = "stopped" /\ pOut' = ErrDate
       ELSE pPc' = "select" /\ pOut' = pOut
    /\ UNCHANGED <<pPos, pSelDate, pSelLine, pTopN, pSel, pAgg, pAggTop, pColors, pChart>>
    /\ UNCHANGED <<envVars, others>>

\* lines 167-173: the date select box, then the line check
NoLines ==
    /\ pPc = "select"
    /\ AvailableLines(pDf) = {}
    /\ \E d \in AvailableDates(pDf) : pSelDate' = d
    /\ pPc' = "stopped"
    /\ pOut' = ErrLine
    /\ UNCHANGED <<pPos, pDf, pSelLine, pTopN, pSel, pAgg, pAggTop, pColors, pChart>>
    /\ UNCHANGED <<envVars, others>>

\* lines 167-176: the user picks a date, a line and Top N among those on offer
Select ==
    /\ pPc = "select"
    /\ AvailableLines(pDf) # {}
    /\ \E d \in AvailableDates(pDf), l \in AvailableLines(pDf), n \in TopNChoices :
          /\ pSelDate' = d
          /\ pSelLine' = l
          /\ pTopN' = n
    /\ pPc' = "filter"
    /\ UNCHANGED <<pPos, pDf, pSel, pAgg, pAggTop, pColors, pOut, pChart>>
    /\ UNCHANGED <<envVars, others>>

\* lines 183-188: the selected rows, and st.warning, st.stop when there are none
Filter ==
    /\ pPc = "filter"
    /\ pSel' = FilterSelection(pDf, pSelDate, pSelLine)
    /\ IF IsEmpty(pSel')
       THEN pPc' = "stopped" /\ pOut' = WarnNoRows
       ELSE pPc' = "total" /\ pOut' = pOut
    /\ UNCHANGED <<pPos, pDf, pSelDate, pSelLine, pTopN, pAgg, pAggTop, pColors, pChart>>
    /\ UNCHANGED <<envVars, others>>

\* lines 190-195: the total column, or st.error, st.stop without on or off
ComputeTotal ==
    /\ pPc = "total"
    /\ IF HasColumn(pSel, KeyOn) /\ HasColumn(pSel, KeyOff)
       THEN pSel' = WithTotal(pSel) /\ pPc' = "aggregate" /\ pOut' = pOut
       ELSE pSel' = pSel /\ pPc' = "stopped" /\ pOut' = ErrOnOff
    /\ UNCHANGED <<pPos, pDf, pSelDate, pSelLine, pTopN, pAgg, pAggTop, pColors, pChart>>
    /\ UNCHANGED <<envVars, others>>

\* line 197 without a station column: groupby raises KeyError, uncaught
AggregateKeyError ==
    /\ pPc = "aggregate"
    /\ ~HasColumn(pSel, KeyStation)
    /\ pPc' = "crashed"
    /\ pOut' = Uncaught("KeyError")
    /\ UNCHANGED <<pPos, pDf, pSelDate, pSelLine, pTopN, pSel, pAgg, pAggTop, pColors, pChart>>
    /\ UNCHANGED <<envVars, others>>

\* lines 197-198: group, sum, sort descending, head(top_n)
Aggregate ==
    /\ pPc = "aggregate"
    /\ HasColumn(pSel, KeyStation)
    /\ \E sorted \in SortValuesDesc(GroupByStation(pSel)) :
          /\ pAgg' = sorted
          /\ pAggTop' = HeadOf(sorted, pTopN)
    /\ pPc' = "colors"
    /\ UNCHANGED <<pPos, pDf, pSelDate, pSelLine, pTopN, pSel, pColors, pOut, pChart>>
    /\ UNCHANGED <<envVars, others>>

\* lines 200-207: prepare colors
Colors ==
    /\ pPc = "colors"
    /\ pColors' = PrepareColorsOf(Len(pAggTop))
    /\ pPc' = "render"
    /\ UNCHANGED <<pPos, pDf, pSelDate, pSelLine, pTopN, pSel, pAgg, pAggTop, pOut, pChart>>
    /\ UNCHANGED <<envVars, others>>

\* lines 209-232: the bar chart and the table under it
Render ==
    /\ pPc = "render"
    /\ pChart' = [shown |-> TRUE,
                  x |-> [g \in 1..Len(pAggTop) |-> pAggTop[g].station],
                  y |-> [g \in 1..Len(pAggTop) |-> pAggTop[g].total],
                  marker_color |-> pColors,
                  table |-> pAggTop]
    /\ pOut' = ShownChart
    /\ pPc' = "rendered"
    /\ UNCHANGED <<pPos, pDf, pSelDate, pSelLine, pTopN, pSel, pAgg, pAggTop, pColors>>
    /\ UNCHANGED <<envVars, others>>

\* the next interaction runs the script again from its first line
Rerun ==
    /\ pPc \in {"stopped", "crashed", "rendered"}
    /\ pPc' = "load"
    /\ pDf' = NoTable
    /\ pSelDate' = 0
    /\ pSelLine' = <<>>
    /\ pTopN' = 0
    /\ pSel' = NoTable
    /\ pAgg' = <<>>
    /\ pAggTop' = <<>>
    /\ pColors' = <<>>
    /\ pOut' = NoOutcome
    /\ pChart' = NoChart
    /\ UNCHANGED pPos
    /\ UNCHANGED <<envVars, others>>

Next ==
    \/ Load \/ Normalize \/ MonthFilter \/ NoLines \/ Select \/ Filter
    \/ ComputeTotal \/ AggregateKeyError \/ Aggregate \/ Colors \/ Render \/ Rerun

Init ==
    /\ \E i \in RunInputs(MaxWideRows, MaxStations, MaxNormRows) :
          /\ pSource = i.source
          /\ pParses = i.parses
          /\ pFile = i.file
    /\ pPos = 0
    /\ pPc = "load"
    /\ FreshRun
    /\ IdleColor /\ IdleLoader /\ IdleNorm /\ IdleDessert

Spec == Init /\ [][Next]_vars

(***************************************************************************)
(* 06_ 지하철 노선.py: the same page without a normalizer, without a       *)
(* handler and without a group-by.  Its run uses the variables of a run    *)
(* of 05_ subway.py: pDf is df and then df_oct, pSel is filtered, pAgg the *)
(* sorted rows, pAggTop is top10.                                          *)
(***************************************************************************)
NalJja == <<"nal","jja">>
HoSeon == <<"ho","seon">>
ChongIYongGaek == <<"chong","i","yong","gaek">>

Headers06 == <<NalJja, HoSeon, YeokMyeong, SeungCha, HaCha>>

\* line 11: pd.read_csv(file, encoding="cp949"), the separator left at ","
LoadPair06 == PairIndex(2, 3)

\* lines 9-14 and 27: load_data raises what read_csv raises; st.cache_data
\* keeps a table once it is read, so a later run reads no stream again
load_data(source, parses, pos) ==
    IF source = "missing"
    THEN { [kind |-> "FileNotFoundError", value |-> 0, pos |-> pos] }
    ELSE IF parses[LoadPair06]
    THEN { [kind |-> "table", value |-> LoadPair06, pos |-> IF HasSeek(source) THEN StreamLen ELSE pos] }
    ELSE { [kind |-> "ReadError", value |-> LoadPair06, pos |-> left] :
           left \in (IF HasSeek(source) THEN pos..StreamLen ELSE {pos}) }

\* lines 30-31 for one cell: astype(str), then to_datetime(format="%Y%m%d")
StrictDate(c) ==
    IF IsNullText(AsStr(c)) THEN NatCell
    ELSE IF IsCompactDate(AsStr(c)) THEN DateCell(DigitsToNat(AsStr(c)))
    ELSE NoneCell

\* lines 30-31: the date column parsed, or ValueError for a text that is no date
ParseDates06(t) ==
    IF ~HasColumn(t, NalJja) THEN Raised("KeyError")
    ELSE IF \E r \in 1..Len(t.rows) : StrictDate(Column(t, NalJja)[r]) = NoneCell
    THEN Raised("ValueError")
    ELSE Returned([t EXCEPT !.rows =
            [r \in 1..Len(t.rows) |->
                [c \in 1..Len(t.cols) |->
                    IF c = ColumnIndex(t, NalJja) THEN StrictDate(t.rows[r][c]) ELSE t.rows[r][c]]]])

\* line 34: df[df["날짜"].dt.month == 10], of any year
FilterMonth06 == 10
FilterOct06(t) ==
    KeepRows(t, [r \in 1..Len(t.rows) |->
                   Column(t, NalJja)[r].k = "date" /\ MonthOf(Column(t, NalJja)[r]) = FilterMonth06])

\* lines 39-40 and 45-46: the options of a select box; an empty box gives None
NoDate == 0
NoLine == <<>>
DateOptions06(t) ==
    LET ds == { Column(t, NalJja)[r].n : r \in 1..Len(t.rows) }
    IN  IF ds = {} THEN {NoDate} ELSE ds
LineOptions06(t) ==
    LET ls == { Column(t, HoSeon)[r].s : r \in 1..Len(t.rows) }
    IN  IF ls = {} THEN {NoLine} ELSE ls

\* lines 51-54: the rows of the selected date and line
Filtered06(t, date, line) ==
    KeepRows(t, [r \in 1..Len(t.rows) |->
                   /\ Column(t, NalJja)[r].n = date
                   /\ Column(t, HoSeon)[r] = StrCell(line)])

\* line 57: filtered["총이용객"] = filtered["승차"] + filtered["하차"]
WithTotal06(t) ==
    [cols |-> Append(t.cols, StrCell(ChongIYongGaek)),
     rows |-> [r \in 1..Len(t.rows) |->
                 Append(t.rows[r], IntCell(Column(t, SeungCha)[r].n + Column(t, HaCha)[r].n))]]

\* the rows that line 60 sorts, each with its place, its station and its total
RowsOf06(t) ==
    [r \in 1..Len(t.rows) |->
        [row |-> r,
         station |-> IF HasColumn(t, YeokMyeong) THEN Column(t, YeokMyeong)[r].s ELSE <<>>,
         total |-> Column(t, ChongIYongGaek)[r].n]]

\* line 60: head(10)
Top10 == 10

\* lines 65-72: black, then nine grays from 50 in steps of int((200 - 50) / 9)
GrayStart06 == 50
GrayEnd06 == 200
GrayCount06 == 9
GrayStep06 == (GrayEnd06 - GrayStart06) \div GrayCount06
RgbText(v) ==
    <<"r","g","b","(">> \o NatToStr(v) \o <<",">> \o NatToStr(v) \o <<",">> \o NatToStr(v) \o <<")">>
Colors06Of ==
    <<HighlightHex>> \o [i \in 1..GrayCount06 |-> RgbText(GrayStart06 + GrayStep06 * (i - 1))]

\* what a column of a short file of 06 may hold, as read_csv types it
WideCells06(hdr) ==
    CASE hdr = NalJja -> {IntCell(20251001), IntCell(20251002), IntCell(20250901), StrCell(<<"x">>)}
      [] hdr = HoSeon -> {StrCell(<<"1">>), StrCell(<<"2">>)}
      [] hdr = YeokMyeong -> {StrCell(<<"A">>)}
      [] hdr = SeungCha -> {IntCell(1)}
      [] hdr = HaCha -> {IntCell(2)}

\* short files: any of the five columns present or absent, 0..maxRows rows
WideTables06(maxRows) ==
    UNION { UNION { { [cols |-> [i \in 1..Len(hs) |-> StrCell(hs[i])], rows |-> rs] :
                      rs \in SeqsOfLen(Product([i \in 1..Len(hs) |-> WideCells06(hs[i])]), h) } :
                    h \in 0..maxRows } :
            hs \in SubSequences(Headers06) \ {<<>>} }

\* long files: about ten rows of one date and line, the totals all different
TallTables06 ==
    { [cols |-> [i \in 1..Len(Headers06) |-> StrCell(Headers06[i])],
       rows |-> [r \in 1..h |->
                   <<IntCell(20251001), StrCell(<<"1">>),
                     StrCell(<<Letters[((r - 1) % Len(Letters)) + 1]>>), IntCell(r), IntCell(0)>>]] :
      h \in (Top10 - 1)..(Top10 + 1) }

RunInputs06(maxRows) ==
    { [source |-> "path", parses |-> AllOk, file |-> f] : f \in WideTables06(maxRows) \cup TallTables06 }
    \cup { [source |-> src, parses |-> ps, file |-> f] :
           src \in {"stream", "path", "missing"}, ps \in {AllOk, NoneOk}, f \in TallTables06 }

\* line 27: df = load_data(uploaded), with no handler around it
Load06 ==
    /\ pPc = "load"
    /\ \E r \in load_data(pSource, pParses, pPos) :
          /\ pPos' = r.pos
          /\ IF r.kind = "table"
             THEN pDf' = pFile /\ pPc' = "parse" /\ pOut' = pOut
             ELSE pDf' = pDf /\ pPc' = "crashed" /\ pOut' = Uncaught(r.kind)
    /\ UNCHANGED <<pSelDate, pSelLine, pTopN, pSel, pAgg, pAggTop, pColors, pChart>>
    /\ UNCHANGED <<envVars, others>>

\* lines 30-34: the dates parsed, then the rows of month 10
ParseDate06 ==
    /\ pPc = "parse"
    /\ LET r == ParseDates06(pDf)
       IN  IF r.ok
           THEN pDf' = FilterOct06(r.t) /\ pPc' = "select" /\ pOut' = pOut
           ELSE pDf' = pDf /\ pPc' = "crashed" /\ pOut' = Uncaught(r.err)
    /\ UNCHANGED <<pPos, pSelDate, pSelLine, pTopN, pSel, pAgg, pAggTop, pColors, pChart>>
    /\ UNCHANGED <<envVars, others>>

\* lines 39-46: the date select box, then df_oct["호선"] and the line select box
Select06 ==
    /\ pPc = "select"
    /\ \E d \in DateOptions06(pDf) :
          /\ pSelDate' = d
          /\ IF HasColumn(pDf, HoSeon)
             THEN /\ \E l \in LineOptions06(pDf) : pSelLine' = l
                  /\ pPc' = "filter"
                  /\ pOut' = pOut
             ELSE /\ pSelLine' = pSelLine
                  /\ pPc' = "crashed"
                  /\ pOut' = Uncaught("KeyError")
    /\ UNCHANGED <<pPos, pDf, pTopN, pSel, pAgg, pAggTop, pColors, pChart>>
    /\ UNCHANGED <<envVars, others>>

\* lines 51-57: the selected rows and their total; no check that any row is left
Filter06 ==
    /\ pPc = "filter"
    /\ LET filtered == Filtered06(pDf, pSelDate, pSelLine)
       IN  IF HasColumn(filtered, SeungCha) /\ HasColumn(filtered, HaCha)
           THEN pSel' = WithTotal06(filtered) /\ pPc' = "sort" /\ pOut' = pOut
           ELSE pSel' = filtered /\ pPc' = "crashed" /\ pOut' = Uncaught("KeyError")
    /\ UNCHANGED <<pPos, pDf, pSelDate, pSelLine, pTopN, pAgg, pAggTop, pColors, pChart>>
    /\ UNCHANGED <<envVars, others>>

\* line 60: the rows sorted by total, descending, and the first ten of them
Top06 ==
    /\ pPc = "sort"
    /\ \E sorted \in SortValuesDesc(RowsOf06(pSel)) :
          /\ pAgg' = sorted
          /\ pAggTop' = HeadOf(sorted, Top10)
    /\ pPc' = "colors"
    /\ UNCHANGED <<pPos, pDf, pSelDate, pSelLine, pTopN, pSel, pColors, pOut, pChart>>
    /\ UNCHANGED <<envVars, others>>

\* lines 65-72: the ten colors, whatever the number of rows
Colors06 ==
    /\ pPc = "colors"
    /\ pColors' = Colors06Of
    /\ pPc' = "render"
    /\ UNCHANGED <<pPos, pDf, pSelDate, pSelLine, pTopN, pSel, pAgg, pAggTop, pOut, pChart>>
    /\ UNCHANGED <<envVars, others>>

\* lines 77-92: px.bar raises ValueError for a column the table lacks; else
\* the chart of top10 is shown with the ten colors
Render06 ==
    /\ pPc = "render"
    /\ IF HasColumn(pSel, YeokMyeong)
       THEN /\ pChart' = [shown |-> TRUE,
                          x |-> [g \in 1..Len(pAggTop) |-> pAggTop[g].station],
                          y |-> [g \in 1..Len(pAggTop) |-> pAggTop[g].total],
                          marker_color |-> pColors,
                          table |-> <<>>]
            /\ pOut' = ShownChart
            /\ pPc' = "rendered"
       ELSE /\ pChart' = pChart
            /\ pOut' = Uncaught("ValueError")
            /\ pPc' = "crashed"
    /\ UNCHANGED <<pPos, pDf, pSelDate, pSelLine, pTopN, pSel, pAgg, pAggTop, pColors>>
    /\ UNCHANGED <<envVars, others>>

Next06 ==
    \/ Load06 \/ ParseDate06 \/ Select06 \/ Filter06 \/ Top06 \/ Colors06 \/ Render06 \/ Rerun

Init06 ==
    /\ \E i \in RunInputs06(MaxWideRows) :
          /\ pSource = i.source
          /\ pParses = i.parses
          /\ pFile = i.file
    /\ pPos = 0
    /\ pPc = "load"
    /\ FreshRun
    /\ IdleColor /\ IdleLoader /\ IdleNorm /\ IdleDessert

Spec06 == Init06 /\ [][Next06]_vars

(***************************************************************************)
(* Statements about the runs of 05_ subway.py.                             *)
(***************************************************************************)
Ended == pPc \in {"stopped", "crashed", "rendered"}
Aggregated == pPc \in {"colors", "render", "rendered"}

NonIncreasing(f) == \A i \in 1..(Len(f) - 1) : f[i].total >= f[i + 1].total

TopTotals == [g \in 1..Len(pAggTop) |-> pAggTop[g].total]

\* C2 as stated: at most top_n groups, totals non-increasing, and the sum of
\* the returned totals at most the sum of the totals of all filtered rows
C2_AggregatorBounds ==
    Aggregated =>
        /\ Len(pAggTop) <= pTopN
        /\ NonIncreasing(pAggTop)
        /\ SumSeq(TopTotals) <= SumSeq(TotalsOf(pSel))

\* the first row of the filtered rows that holds the station
FirstSeen(station) ==
    CHOOSE r \in 1..Len(pSel.rows) :
        /\ Column(pSel, KeyStation)[r].s = station
        /\ \A q \in 1..(r - 1) : Column(pSel, KeyStation)[q].s # station

\* C3 as stated: groups with the same total come in first-seen order, and
\* that order decides which of them head(top_n) keeps.  (groupby hands the
\* groups over in ascending key order and the default sort is not stable.)
C3_TiesFirstSeen ==
    Aggregated =>
        /\ pAggTop = HeadOf(pAgg, pTopN)
        /\ \A i, j \in 1..Len(pAgg) :
              (i < j /\ pAgg[i].total = pAgg[j].total) =>
                  FirstSeen(pAgg[i].station) < FirstSeen(pAgg[j].station)

\* the columns among on and off that the normalized table of the run lacks
NumericMissing ==
    IF pDf = NoTable THEN {}
    ELSE { k \in {"on", "off"} : ~HasColumn(pDf, IF k = "on" THEN KeyOn ELSE KeyOff) }

\* the run got as far as the check of lines 191-195
ReachedTotalCheck == pSel # NoTable /\ ~IsEmpty(pSel)

\* C5 as stated: without on or off the run stops with an error whose
\* message names the column that is missing, and shows no chart
C5_NamesMissingColumn ==
    (Ended /\ ReachedTotalCheck /\ NumericMissing # {}) =>
        /\ pOut.kind = "error"
        /\ pOut.names = NumericMissing
        /\ ~pChart.shown

\* a date and a line were selected, and no row has both
SelectionEmpty ==
    /\ pSelDate # NoDate
    /\ pSelLine # NoLine
    /\ pSel # NoTable
    /\ Len(pSel.rows) = 0

\* C4 as stated: a selection that matches no row ends the run with a warning,
\* before the colors are prepared and before any chart is drawn
C4_EmptySelectionWarns ==
    (Ended /\ pPc # "crashed" /\ SelectionEmpty) =>
        /\ pOut.kind = "warning"
        /\ pColors = <<>>
        /\ ~pChart.shown

\* C6 as stated: every run ends with the chart, an error message or a
\* warning, and no exception escapes
C6_NoUncaughtException ==
    Ended =>
        /\ pPc # "crashed"
        /\ pOut.kind \in {"chart", "error", "warning"}

\* C12 as stated: a chart that shows bars is given one color per bar, the
\* bars being the rows of the aggregate in their order
C12_OneColorPerBar ==
    (pChart.shown /\ Len(pChart.x) >= 1) =>
        /\ Len(pChart.x) = Len(pAggTop)
        /\ \A k \in 1..Len(pChart.x) :
              pChart.x[k] = pAggTop[k].station /\ pChart.y[k] = pAggTop[k].total
        /\ pChart.marker_color = pColors
        /\ Len(pChart.marker_color) = Len(pChart.x)

(***************************************************************************)
(* The colorizer, step by step.                                            *)
(***************************************************************************)
\* colors = []; if len(agg_top) > 0: colors.append("#000000"); remaining = ...
PrepareColors ==
    /\ cPc = "prepare"
    /\ cColors' = IF cN > 0 THEN <<HighlightHex>> ELSE <<>>
    /\ cPc' = IF cN > 0 /\ Max(0, cN - 1) > 0 THEN "gradient" ELSE "done"
    /\ cI' = 0
    /\ cGrad' = <<>>
    /\ UNCHANGED cN
    /\ UNCHANGED <<loaderVars, normVars, envVars, runVars, dessertVars>>

\* one iteration of "for i in range(n)" with n = remaining
GradStep ==
    /\ cPc = "gradient"
    /\ cI < Max(0, cN - 1)
    /\ cGrad' = Append(cGrad, GradColor(cI, Max(0, cN - 1), StartHex, EndHex))
    /\ cI' = cI + 1
    /\ UNCHANGED <<cN, cPc, cColors>>
    /\ UNCHANGED <<loaderVars, normVars, envVars, runVars, dessertVars>>

\* return colors; colors.extend(grad)
GradReturn ==
    /\ cPc = "gradient"
    /\ cI >= Max(0, cN - 1)
    /\ cColors' = cColors \o cGrad
    /\ cPc' = "done"
    /\ UNCHANGED <<cN, cI, cGrad>>
    /\ UNCHANGED <<loaderVars, normVars, envVars, runVars, dessertVars>>

NextColor == PrepareColors \/ GradStep \/ GradReturn

InitColor ==
    /\ cN \in 0..MaxBars
    /\ cPc = "prepare"
    /\ cI = 0
    /\ cGrad = <<>>
    /\ cColors = <<>>
    /\ IdleLoader /\ IdleNorm /\ IdleRun /\ IdleDessert

SpecColor == InitColor /\ [][NextColor]_vars

(***************************************************************************)
(* C1 (as amended): the color list has one entry per aggregate row, the    *)
(* first is the highlight #000000, the second (N >= 2) is the dark-gray    *)
(* endpoint #2f2f2f, and the last is the light-gray endpoint #bfbfbf only  *)
(* for N >= 3; for N = 2 the single remaining color is the dark endpoint.  *)
(***************************************************************************)
C1_ColorEndpoints ==
    cPc = "done" =>
        /\ Len(cColors) = cN
        /\ cColors = PrepareColorsOf(cN)
        /\ (cN >= 1 => cColors[1] = HighlightHex)
        /\ (cN >= 2 => cColors[2] = StartHex)
        /\ (cN >= 3 => cColors[cN] = EndHex)
        /\ (cN = 2 => cColors[cN] = StartHex)

C1_Witness == cPc = "done" /\ cN >= 3 /\ cColors[cN] = EndHex

\* C1 as stated: for every N >= 2 the last color is the light-gray endpoint
C1_Original ==
    cPc = "done" =>
        /\ Len(cColors) = cN
        /\ (cN >= 1 => cColors[1] = HighlightHex)
        /\ (cN >= 2 => cColors[2] = StartHex /\ cColors[cN] = EndHex)

\* the gray value that the claim gives the i-th (0-based) of the colors after
\* the highlight when there are N colors in all: 47 + 144 * i / (N - 2)
\* truncated, with t = 0 when N = 2
GrayOfClaim(i, N) == IF N <= 2 THEN 47 ELSE 47 + (144 * i) \div (N - 2)

(***************************************************************************)
(* C11: the colors after the highlight are the per-channel interpolation   *)
(* from #2f2f2f to #bfbfbf with t = i/(N-2) (t = 0 when one color          *)
(* remains), truncated; each has three equal channels within 47..191 and   *)
(* the gray value never decreases with i.                                  *)
(***************************************************************************)
C11_LinearGrays ==
    /\ \A j \in 1..Len(cGrad) :
          /\ Len(cGrad[j]) = 7
          /\ hex_to_rgb(cGrad[j]) = [k \in 1..3 |-> GrayOfClaim(j - 1, cN)]
          /\ hex_to_rgb(cGrad[j])[1] \in 47..191
          /\ (j > 1 => hex_to_rgb(cGrad[j - 1])[1] <= hex_to_rgb(cGrad[j])[1])
    /\ cPc = "done" =>
          /\ Len(cGrad) = Max(0, cN - 1)
          /\ \A j \in 1..Len(cGrad) : cColors[j + 1] = cGrad[j]

\* a gradient whose steps do not divide evenly, so that truncation shows
C11_Witness ==
    /\ cPc = "done"
    /\ cN = 7
    /\ hex_to_rgb(cColors[3]) = <<75, 75, 75>>
    /\ hex_to_rgb(cColors[7]) = <<191, 191, 191>>

(***************************************************************************)
(* 07_ Dessert.py: categorize_item.  An item is a cell of the Items        *)
(* column; its name is the lower-cased text of the cell, and "kw in name"  *)
(* is the substring test on that text.                                     *)
(***************************************************************************)
CATEGORY_KEYWORDS ==
    [ dessert_sweet |->
        << <<"c","a","k","e">>, <<"m","u","f","f","i","n">>,
           <<"c","o","o","k","i","e">>, <<"b","r","o","w","n","i","e">>,
           <<"t","a","r","t">>, <<"c","h","e","e","s","e","c","a","k","e">>,
           <<"c","u","s","t","a","r","d">>, <<"s","w","e","e","t">>,
           <<"c","r","e","a","m">>, <<"p","u","d","d","i","n","g">>,
           <<"m","a","c","a","r","o","n">>,
           <<"m","a","c","a","r","o","o","n">>,
           <<"c","h","o","c","o","l","a","t","e">>,
           <<"g","a","n","a","c","h","e">>, <<"p","a","r","f","a","i","t">>,
           <<"y","o","g","u","r","t">>, <<"y","o","g","h","u","r","t">>,
           <<"m","o","u","s","s","e">>, <<"d","a","n","i","s","h">>,
           <<"s","t","r","u","d","e","l">>, <<"p","i","e">>,
           <<"s","c","o","n","e">> >>,
      dessert_crunch |->
        << <<"c","o","o","k","i","e">>, <<"b","i","s","c","u","i","t">>,
           <<"c","r","a","c","k","e","r">>, <<"g","r","a","n","o","l","a">>,
           <<"c","r","i","s","p">>, <<"c","r","u","n","c","h">>,
           <<"n","o","u","g","a","t">>, <<"b","r","i","t","t","l","e">>,
           <<"a","l","m","o","n","d">>, <<"w","a","f","e","r">> >>,
      dessert_soft |->
        << <<"m","o","u","s","s","e">>, <<"c","r","e","a","m">>,
           <<"c","u","s","t","a","r","d">>,
           <<"c","h","e","e","s","e","c","a","k","e">>,
           <<"y","o","g","u","r","t">>, <<"y","o","g","h","u","r","t">>,
           <<"s","o","u","f","f","l","e">>, <<"p","a","n","n","a">>,
           <<"m","o","c","h","i">> >>,
      dessert_bread |->
        << <<"b","r","e","a","d">>, <<"b","a","g","u","e","t","t","e">>,
           <<"b","u","n">>, <<"r","o","l","l">>,
           <<"c","r","o","i","s","s","a","n","t">>, <<"b","a","g","e","l">>,
           <<"b","r","i","o","c","h","e">>, <<"t","o","a","s","t">>,
           <<"d","a","n","i","s","h">>, <<"p","a","n","i","n","i">>,
           <<"f","o","c","a","c","c","i","a">>,
           <<"c","i","a","b","a","t","t","a">> >>,
      drink_coffee |->
        << <<"c","o","f","f","e","e">>, <<"l","a","t","t","e">>,
           <<"c","a","p","p","u","c","c","i","n","o">>,
           <<"e","s","p","r","e","s","s","o">>,
           <<"a","m","e","r","i","c","a","n","o">>, <<"m","o","c","h","a">>,
           <<"m","a","c","c","h","i","a","t","o">> >>,
      drink_tea |->
        << <<"t","e","a">>, <<"g","r","e","e","n"," ","t","e","a">>,
           <<"e","a","r","l">>, <<"e","a","r","l"," ","g","r","e","y">>,
           <<"m","a","t","c","h","a">>, <<"c","h","a","i">>,
           <<"o","o","l","o","n","g">>, <<"h","e","r","b","a","l">> >>,
      drink_sweet |->
        << <<"s","m","o","o","t","h","i","e">>,
           <<"m","i","l","k","s","h","a","k","e">>, <<"s","h","a","k","e">>,
           <<"i","c","e","d">>, <<"l","e","m","o","n","a","d","e">>,
           <<"f","r","a","p","p","e">>, <<"j","u","i","c","e">>,
           <<"s","o","d","a">>, <<"c","o","c","o","a">>,
           <<"h","o","t"," ","c","h","o","c","o","l","a","t","e">>,
           <<"c","h","o","c","o","l","a","t","e">> >> ]

CATEGORY_LABELS ==
    [ dessert_sweet |-> "Dessert - Sweet",
      dessert_crunch |-> "Dessert - Crunch",
      dessert_soft |-> "Dessert - Soft",
      dessert_bread |-> "Dessert - Bread",
      drink_coffee |-> "Beverage - Coffee",
      drink_tea |-> "Beverage - Tea",
      drink_sweet |-> "Beverage - Sweet" ]

\* the order in which the loop of categorize_item visits the categories, as
\* the dict lists them (the slip) and as the loop lists them
PriorityKeysSlip ==
    <<"dessert_sweet", "dessert_crunch", "dessert_soft", "dessert_bread",
      "drink_coffee", "drink_tea", "drink_sweet">>
PriorityKeys ==
    <<"dessert_bread", "dessert_crunch", "dessert_soft", "dessert_sweet",
      "drink_coffee", "drink_tea", "drink_sweet">>

UpperLetters ==
    <<"A","B","C","D","E","F","G","H","I","J","K","L","M",
      "N","O","P","Q","R","S","T","U","V","W","X","Y","Z">>
LowerLetters ==
    <<"a","b","c","d","e","f","g","h","i","j","k","l","m",
      "n","o","p","q","r","s","t","u","v","w","x","y","z">>

\* str.lower
LowerChar(c) ==
    IF \E k \in 1..Len(UpperLetters) : UpperLetters[k] = c
    THEN LowerLetters[CHOOSE k \in 1..Len(UpperLetters) : UpperLetters[k] = c]
    ELSE c
Lower(s) == [i \in 1..Len(s) |-> LowerChar(s[i])]

\* name = str(item).lower()
NameOf(item) == Lower(AsStr(item))

\* any(w in name for w in words)
AnyIn(words, name) == \E k \in 1..Len(words) : Contains(name, words[k])

\* the inner loop: some keyword of the category is in the name
KeyMatches(key, name) == AnyIn(CATEGORY_KEYWORDS[key], name)

\* the outcome of a call: the label returned, and the return statement that
\* returned it ("loop", "beverage", "bread", "savory", "other")
Labelled(label, rule) == [label |-> label, rule |-> rule]
NoLabel == Labelled("", "none")

\* the statements after the priority loop
Fallback(name) ==
    LET beverage == << <<"c","o","f","f","e","e">>,
                         <<"l","a","t","t","e">>, <<"t","e","a">>,
                         <<"j","u","i","c","e">>,
                         <<"c","h","o","c","o","l","a","t","e">>,
                         <<"h","o","t"," ","c","h","o","c","o","l","a","t","e">>,
                         <<"i","c","e","d">> >>
        bread == << <<"b","r","e","a","d">>, <<"b","u","n">>,
                      <<"r","o","l","l">>,
                      <<"c","r","o","i","s","s","a","n","t">>,
                      <<"b","a","g","e","l">>,
                      <<"b","r","i","o","c","h","e">> >>
        savory_clues ==
            << <<"s","a","n","d","w","i","c","h">>, <<"s","a","l","a","d">>,
               <<"s","o","u","p">>, <<"s","a","l","a","m","i">>,
               <<"h","a","m">>, <<"c","h","e","e","s","e">>,
               <<"c","h","i","c","k","e","n">>, <<"b","e","e","f">>,
               <<"e","g","g">>, <<"o","m","e","l","e","t","t","e">>,
               <<"w","r","a","p">> >>
    IN  IF AnyIn(beverage, name)
        THEN IF Contains(name, <<"t","e","a">>)
             THEN Labelled(CATEGORY_LABELS["drink_tea"], "beverage")
             ELSE IF Contains(name, <<"c","o","f","f","e","e">>)
             THEN Labelled(CATEGORY_LABELS["drink_coffee"], "beverage")
             ELSE Labelled(CATEGORY_LABELS["drink_sweet"], "beverage")
        ELSE IF AnyIn(bread, name)
        THEN Labelled(CATEGORY_LABELS["dessert_bread"], "bread")
        ELSE IF AnyIn(savory_clues, name)
        THEN Labelled("Meal", "savory")
        ELSE Labelled("Other", "other")

\* the call: the name is computed and the loop starts at the first category
Call ==
    /\ dPc = "call"
    /\ dName' = NameOf(dItem)
    /\ dKey' = 1
    /\ dPc' = "loop"
    /\ UNCHANGED <<dItem, dOut>>
    /\ UNCHANGED <<colorVars, loaderVars, normVars, envVars, runVars>>

\* one turn of the loop over the categories
LoopKey ==
    /\ dPc = "loop"
    /\ dKey <= Len(PriorityKeys)
    /\ IF KeyMatches(PriorityKeys[dKey], dName)
       THEN /\ dOut' = Labelled(CATEGORY_LABELS[PriorityKeys[dKey]], "loop")
            /\ dPc' = "done"
            /\ UNCHANGED dKey
       ELSE /\ dKey' = dKey + 1
            /\ UNCHANGED <<dPc, dOut>>
    /\ UNCHANGED <<dItem, dName>>
    /\ UNCHANGED <<colorVars, loaderVars, normVars, envVars, runVars>>

\* the loop ended without a return
AfterLoop ==
    /\ dPc = "loop"
    /\ dKey > Len(PriorityKeys)
    /\ dOut' = Fallback(dName)
    /\ dPc' = "done"
    /\ UNCHANGED <<dItem, dName, dKey>>
    /\ UNCHANGED <<colorVars, loaderVars, normVars, envVars, runVars>>

Next07 == Call \/ LoopKey \/ AfterLoop

\* the words the item names of the model are made of
Fragments ==
    << <<"C","o","o","k","i","e">>, <<"c","r","e","a","m">>,
       <<"d","a","n","i","s","h">>, <<"b","r","e","a","d">>,
       <<"l","a","t","t","e">>, <<"C","O","F","F","E","E">>,
       <<"t","e","a">>, <<"j","u","i","c","e">>,
       <<"h","o","t"," ","c","h","o","c","o","l","a","t","e">>,
       <<"i","c","e","d">>, <<"h","a","m">>, <<"s","t","e","a","k">>,
       <<"p","l","u","m">>, <<" ">> >>

RECURSIVE NamesOf(_)
NamesOf(words) ==
    IF words = 0 THEN {<<>>}
    ELSE NamesOf(words - 1) \cup
         {n \o Fragments[k] : n \in NamesOf(words - 1), k \in 1..Len(Fragments)}

\* the cells of the Items column: a text, a missing value, a number
Items(words) ==
    {StrCell(n) : n \in NamesOf(words)} \cup {NanCell, IntCell(7)}

Init07 ==
    /\ dItem \in Items(MaxWords)
    /\ dName = <<>>
    /\ dKey = 0
    /\ dPc = "call"
    /\ dOut = NoLabel
    /\ IdleColor /\ IdleLoader /\ IdleNorm /\ IdleRun

Spec07 == Init07 /\ [][Next07]_vars

\* the nine labels, and the priority order, as the claim lists them
NineLabels ==
    {"Dessert - Bread", "Dessert - Crunch", "Dessert - Soft", "Dessert - Sweet",
     "Beverage - Coffee", "Beverage - Tea", "Beverage - Sweet", "Meal", "Other"}
ClaimOrder ==
    <<"dessert_bread", "dessert_crunch", "dessert_soft", "dessert_sweet",
      "drink_coffee", "drink_tea", "drink_sweet">>
ClaimLabel ==
    <<"Dessert - Bread", "Dessert - Crunch", "Dessert - Soft", "Dessert - Sweet",
      "Beverage - Coffee", "Beverage - Tea", "Beverage - Sweet">>

\* the positions in the priority order of the categories with a keyword in
\* the name of the item
Matching ==
    {j \in 1..Len(ClaimOrder) :
        \E k \in 1..Len(CATEGORY_KEYWORDS[ClaimOrder[j]]) :
            Contains(Lower(AsStr(dItem)), CATEGORY_KEYWORDS[ClaimOrder[j]][k])}

(***************************************************************************)
(* C13: categorize_item is total and deterministic: a call never stops     *)
(* before it returns, and it returns exactly one of the nine labels; when  *)
(* keywords of one or more categories are in the name, the label is that   *)
(* of the earliest such category in the order bread, crunch, soft, sweet,  *)
(* coffee, tea, sweet drink; "Meal" and "Other" are returned only when no  *)
(* category keyword is in the name; the beverage and bread rules after the *)
(* loop never return.                                                      *)
(***************************************************************************)
C13_PriorityLabel ==
    /\ dPc \in {"call", "loop"} => ENABLED Next07
    /\ dPc = "done" =>
          /\ dOut.label \in NineLabels
          /\ Matching # {} =>
                dOut.label = ClaimLabel[CHOOSE j \in Matching : \A m \in Matching : j <= m]
          /\ dOut.label \in {"Meal", "Other"} => Matching = {}
          /\ dOut.rule \notin {"beverage", "bread"}

\* an upper-case name with keywords of three categories and a word of the
\* beverage rule: "Cookiehot chocolate" is crunch, sweet and sweet drink
C13_Witness ==
    /\ dPc = "done"
    /\ dItem = StrCell(Fragments[1] \o Fragments[9])
    /\ Matching = {2, 4, 7}
    /\ dOut.label = "Dessert - Crunch"

====
